---------------------------- MODULE Spec2Model ----------------------------
(***************************************************************************)
(* Tide Tales (src/app.py): the column classifier, the upload / source     *)
(* switching logic around st.session_state, and the fact pack computed     *)
(* from the active series and the slider range.                            *)
(*                                                                         *)
(* Text (column names, the service's answer) is a sequence of one-         *)
(* character strings, so that lower(), "k in name", split() and strip()    *)
(* are computed and not assumed.  Numeric cells are integers counting      *)
(* units of 1/Scale, so that a year such as 1.5 exists and int() truncates.*)
(***************************************************************************)
EXTENDS Integers, Sequences, FiniteSets, TLC

VARIABLES
    current_source,      \* st.session_state['current_source']  (None before the first run)
    active_df,           \* st.session_state['active_df']       (None, or the series)
    last_uploaded_file,  \* st.session_state['last_uploaded_file'] (None, or a file name)
    nasa_cache,          \* st.cache_data entry of fetch_nasa_gistemp (None until first call)
    side_src,            \* radio "Select Data Source"
    user_file,           \* file uploader content (None, or the uploaded file)
    api_key,             \* text input "Anthropic API Key"
    slider,              \* main_year_slider: None, or [lo, hi, val] of the widget
    run                  \* what the last script run computed and displayed

vars == <<current_source, active_df, last_uploaded_file, nasa_cache,
          side_src, user_file, api_key, slider, run>>

\* Python's None for a string-valued key (a source, a file name).  No source and
\* no file of the model has the empty name.
None == ""

(***************************************************************************)
(* Text                                                                    *)
(***************************************************************************)
UpperChars == <<"A","B","C","D","E","F","G","H","I","J","K","L","M",
                "N","O","P","Q","R","S","T","U","V","W","X","Y","Z">>
LowerChars == <<"a","b","c","d","e","f","g","h","i","j","k","l","m",
                "n","o","p","q","r","s","t","u","v","w","x","y","z">>

\* str.lower() on one character
LowerChar(ch) ==
    IF \E i \in 1..26 : UpperChars[i] = ch
    THEN LowerChars[CHOOSE i \in 1..26 : UpperChars[i] = ch]
    ELSE ch

\* str.lower()
Lower(s) == [i \in 1..Len(s) |-> LowerChar(s[i])]

\* s.find(k) from position i on, 1-based; 0 when k does not occur
RECURSIVE FindFrom(_, _, _)
FindFrom(s, k, i) ==
    IF i + Len(k) - 1 > Len(s) THEN 0
    ELSE IF SubSeq(s, i, i + Len(k) - 1) = k THEN i
    ELSE FindFrom(s, k, i + 1)

\* k in s
Contains(s, k) == FindFrom(s, k, 1) # 0

\* s.split(k): the parts of s between the occurrences of k
RECURSIVE Split(_, _)
Split(s, k) ==
    LET i == FindFrom(s, k, 1)
    IN  IF i = 0 THEN <<s>>
        ELSE <<SubSeq(s, 1, i - 1)>> \o Split(SubSeq(s, i + Len(k), Len(s)), k)

Whitespace == {" ", "\n", "\t"}

\* s.strip()
RECURSIVE Strip(_)
Strip(s) ==
    IF s = <<>> THEN s
    ELSE IF s[1] \in Whitespace THEN Strip(Tail(s))
    ELSE IF s[Len(s)] \in Whitespace THEN Strip(SubSeq(s, 1, Len(s) - 1))
    ELSE s

\* c in cols  (membership in a list / in df.columns)
InCols(c, cols) == \E i \in 1..Len(cols) : cols[i] = c

(***************************************************************************)
(* ai_sniff_columns                                                        *)
(***************************************************************************)
y_keywords == << <<"y","e","a","r">>, <<"y","r">>, <<"d","a","t","e">>,
                 <<"t","i","m","e">>, <<"p","e","r","i","o","d">> >>

d_keywords == << <<"t","e","m","p">>, <<"a","n","o","m">>, <<"v","a","l">>,
                 <<"j","-","d">>, <<"a","n","n","u","a","l">>,
                 <<"i","n","d","e","x">>, <<"a","q","i">>, <<"p","p","m">> >>

\* any(k in str(c).lower() for k in keywords)
AnyKeyword(c, keywords) ==
    \E i \in 1..Len(keywords) : Contains(Lower(c), keywords[i])

\* next((c for c in cols if P(c)), default), P given as the set of indices that satisfy it
FirstOr(cols, hits, default) ==
    IF hits = {} THEN default
    ELSE cols[CHOOSE i \in hits : \A j \in hits : i <= j]

\* a classifier that takes the first column for the time axis whatever its name
y_col_positional(cols) == cols[1]

y_col(cols) ==
    FirstOr(cols, {i \in 1..Len(cols) : AnyKeyword(cols[i], y_keywords)}, cols[1])

\* y is the time column chosen before
d_col(cols, y) ==
    FirstOr(cols,
            {i \in 1..Len(cols) : AnyKeyword(cols[i], d_keywords) /\ cols[i] # y},
            IF Len(cols) > 1 THEN cols[2] ELSE cols[1])

\* what a call of ai_sniff_columns ends in: the pair (y, d) it returns, or an
\* exception that leaves it (exc)
Returns(y, d) == [y |-> y, d |-> d, exc |-> FALSE]
Raises        == [y |-> <<>>, d |-> <<>>, exc |-> TRUE]

\* the heuristic fallback, lines 105-109; cols[0] of an empty list is an IndexError
Heuristic(cols) ==
    IF cols = <<>> THEN Raises
    ELSE Returns(y_col(cols), d_col(cols, y_col(cols)))

YearMarker == <<"Y","e","a","r",":">>
DataMarker == <<"D","a","t","a",":">>
Newline    == <<"\n">>

\* res.split(marker)[1].split("\n")[0].strip(); defined when ParseRaises is false
ParseField(res, marker) == Strip(Split(Split(res, marker)[2], Newline)[1])

\* IndexError of split(marker)[1] when the marker is missing
ParseRaises(res) ==
    \/ Len(Split(res, YearMarker)) < 2
    \/ Len(Split(res, DataMarker)) < 2

\* The outcome of client.messages.create: it raised, or it answered with a text
Raised     == [raised |-> TRUE,  text |-> <<>>]
Answer(t)  == [raised |-> FALSE, text |-> t]

\* the same without the try / except around the service call and the parsing
ai_sniff_columns_uncaught(cols, key, resp) ==
    IF key = "" THEN Heuristic(cols)
    ELSE IF resp.raised \/ ParseRaises(resp.text) THEN Raises
    ELSE Returns(ParseField(resp.text, YearMarker), ParseField(resp.text, DataMarker))

\* "if api_key: try: ... return y, d; except: pass", then the heuristic
ai_sniff_columns(cols, key, resp) ==
    IF key # "" /\ ~resp.raised /\ ~ParseRaises(resp.text)
    THEN Returns(ParseField(resp.text, YearMarker), ParseField(resp.text, DataMarker))
    ELSE Heuristic(cols)

(***************************************************************************)
(* Tables, cells and the cleaned series                                    *)
(***************************************************************************)
\* Numeric cells count units of 1/Scale: with Scale = 2 the cell 3 is 1.5.
Scale == 2

Num(v)   == [kind |-> "num",  v |-> v]
NaN      == [kind |-> "nan",  v |-> 0]    \* the na_values token "***", or an empty cell
TextCell == [kind |-> "text", v |-> 0]    \* a cell that is not a number (a repeated header)

\* pd.to_numeric(column, errors='coerce') on one cell
to_numeric(cell) == IF cell.kind = "num" THEN cell ELSE NaN

\* st.session_state['active_df']: None, or a frame of (year, anomaly) rows
NoDf     == [present |-> FALSE, rows |-> <<>>]
Df(rows) == [present |-> TRUE,  rows |-> rows]

\* position of a column label in df.columns (labels are unique after read_csv)
ColIndex(cols, c) == CHOOSE i \in 1..Len(cols) : cols[i] = c

\* raw_df[[y_name, d_name]] renamed to year / anomaly, both coerced, then dropna()
BuildSeries(table, y_name, d_name) ==
    LET iy == ColIndex(table.cols, y_name)
        id == ColIndex(table.cols, d_name)
        coerced == [r \in 1..Len(table.rows) |->
                       [year    |-> to_numeric(table.rows[r][iy]),
                        anomaly |-> to_numeric(table.rows[r][id])]]
        kept == SelectSeq(coerced, LAMBDA p : p.year.kind = "num" /\ p.anomaly.kind = "num")
    IN  [r \in 1..Len(kept) |-> [year |-> kept[r].year.v, anomaly |-> kept[r].anomaly.v]]

(***************************************************************************)
(* The dashboard: slider bounds, filter and fact pack                      *)
(***************************************************************************)
\* column projections of a frame
Years(rows)     == [i \in 1..Len(rows) |-> rows[i].year]
Anomalies(rows) == [i \in 1..Len(rows) |-> rows[i].anomaly]

\* Series.min(), Series.max() of a non-empty column
SeqMin(s) == CHOOSE m \in {s[i] : i \in 1..Len(s)} : \A i \in 1..Len(s) : m <= s[i]
SeqMax(s) == CHOOSE m \in {s[i] : i \in 1..Len(s)} : \A i \in 1..Len(s) : m >= s[i]

RECURSIVE SeqSum(_)
SeqSum(s) == IF s = <<>> THEN 0 ELSE s[1] + SeqSum(Tail(s))

\* int(x) of a number counted in units of 1/Scale: truncation towards zero
IntOf(v) == IF v >= 0 THEN v \div Scale ELSE -((-v) \div Scale)

\* data[(data['year'] >= lo) & (data['year'] <= hi)]
FilterRange(rows, lo, hi) ==
    SelectSeq(rows, LAMBDA p : p.year >= lo * Scale /\ p.year <= hi * Scale)

Abs(n) == IF n < 0 THEN -n ELSE n

RECURSIVE Gcd(_, _)
Gcd(a, b) == IF b = 0 THEN a ELSE Gcd(b, a % b)

\* a fraction in lowest terms with a positive denominator (den = 0: not a number)
Rat(n, d) ==
    IF d = 0 THEN [num |-> n, den |-> 0]
    ELSE LET g == Gcd(Abs(n), Abs(d))
             s == IF d < 0 THEN -1 ELSE 1
         IN  [num |-> s * (n \div g), den |-> s * (d \div g)]

\* np.polyfit(x, y, 1): the least-squares line.  When every x is the same the
\* normal equations are singular and numpy's lstsq returns the minimum-norm
\* solution of the column-scaled system (with a RankWarning, no exception):
\* slope = mean(y) / (2 x), intercept = mean(y) / 2.
polyfit(rows) ==
    LET n   == Len(rows)
        Sx  == SeqSum(Years(rows))
        Sy  == SeqSum(Anomalies(rows))
        Sxx == SeqSum([i \in 1..n |-> rows[i].year * rows[i].year])
        Sxy == SeqSum([i \in 1..n |-> rows[i].year * rows[i].anomaly])
        D   == n * Sxx - Sx * Sx
        N   == n * Sxy - Sx * Sy
    IN  IF D # 0
        THEN [slope |-> Rat(N, D), intercept |-> Rat(Sy * D - N * Sx, n * D)]
        ELSE [slope |-> Rat(Sy, 2 * n * rows[1].year), intercept |-> Rat(Sy, 2 * n)]

NoFacts == [val_start |-> 0, val_end |-> 0, net_shift |-> 0, peak |-> 0, trough |-> 0,
            slope |-> Rat(0, 1), intercept |-> Rat(0, 1)]

\* MATH (FACT PACK) on a non-empty filtered frame
FactPack(filtered) ==
    LET val_start == filtered[1].anomaly
        val_end   == filtered[Len(filtered)].anomaly
        fit       == polyfit(filtered)
    IN  [val_start |-> val_start, val_end |-> val_end,
         net_shift |-> val_end - val_start,
         peak      |-> SeqMax(Anomalies(filtered)),
         trough    |-> SeqMin(Anomalies(filtered)),
         slope     |-> fit.slope, intercept |-> fit.intercept]

\* main_year_slider: the widget's bounds and value; absent while the script stops before it
NoSlider == [present |-> FALSE, lo |-> 0, hi |-> 0, a |-> 0, b |-> 0]

\* Section 7 on st.session_state['active_df'].copy().  int(NaN) of an empty frame
\* raises ValueError: the run ends in an uncaught exception before the slider.
\* The slider keeps the user's value while its bounds are the same and starts
\* at the full range (min_year, max_year) otherwise.
Dashboard(data, sl) ==
    IF data.rows = <<>>
    THEN [view |-> "crashed", slider |-> NoSlider, count |-> 0, trend |-> FALSE,
          facts |-> NoFacts]
    ELSE LET min_year == IntOf(SeqMin(Years(data.rows)))
             max0     == IntOf(SeqMax(Years(data.rows)))
             max_year == IF min_year >= max0 THEN min_year + 1 ELSE max0
             selected_range ==
                 IF sl.present /\ sl.lo = min_year /\ sl.hi = max_year
                 THEN <<sl.a, sl.b>> ELSE <<min_year, max_year>>
             filtered_df == FilterRange(data.rows, selected_range[1], selected_range[2])
         IN  [view   |-> IF filtered_df = <<>> THEN "blank" ELSE "rendered",
              slider |-> [present |-> TRUE, lo |-> min_year, hi |-> max_year,
                          a |-> selected_range[1], b |-> selected_range[2]],
              count  |-> Len(filtered_df),
              \* the "Trend" trace and the "Trend Rate" metric are drawn with the rest
              trend  |-> filtered_df # <<>>,
              facts  |-> IF filtered_df = <<>> THEN NoFacts ELSE FactPack(filtered_df)]

(***************************************************************************)
(* Data sources                                                            *)
(***************************************************************************)
NASA   == "NASA GISTEMP (Global)"
UPLOAD == "Upload My Own CSV"

\* Rows of the stand-in for the NASA table (125 rows, 1900..2024, in the code)
NasaRows == 2
\* range(1900, 2025)
NasaFirstYear == 1900

\* the fallback frame of fetch_nasa_gistemp: consecutive years, rising anomaly
NasaFallback ==
    [i \in 1..NasaRows |-> [year |-> (NasaFirstYear + i - 1) * Scale, anomaly |-> i - 1]]

\* the cleaned Year / J-D frame of a successful download
NasaDownload ==
    [i \in 1..NasaRows |-> [year |-> (NasaFirstYear + i - 1) * Scale, anomaly |-> 2 * i]]

Net == {"ok", "failed"}

\* fetch_nasa_gistemp under st.cache_data: computed once, then served from the cache
fetch_nasa_gistemp(cache, net) ==
    IF cache.present THEN cache
    ELSE Df(IF net = "ok" THEN NasaDownload ELSE NasaFallback)

\* The uploader's content: a name and what pd.read_csv makes of the bytes
\* (readable = FALSE: read_csv raises)
NoTable == [cols |-> <<>>, rows |-> <<>>]
NoFile  == [present |-> FALSE, name |-> None, readable |-> FALSE, table |-> NoTable]
File(name, table) == [present |-> TRUE, name |-> name, readable |-> TRUE, table |-> table]
BrokenFile(name)  == [present |-> TRUE, name |-> name, readable |-> FALSE, table |-> NoTable]

NoMapping == Returns(<<>>, <<>>)

IdleRun == [load |-> "none", sniffed |-> FALSE, resp |-> Raised, y_name |-> <<>>,
            d_name |-> <<>>, view |-> "stopped", count |-> 0, trend |-> FALSE,
            facts |-> NoFacts]

(***************************************************************************)
(* One run of the script, sections 6 and 7                                 *)
(***************************************************************************)
\* a run of the script without the block that resets active_df when the source
\* changes (lines 142-147): only current_source follows the radio
Script_no_source_reset(cs, adf, last, cache, src, file, key, sl, resp, net) ==
    LET cs1     == IF cs = None THEN src ELSE cs
        changed == cs1 # src
        fetched == fetch_nasa_gistemp(cache, net)
        adf1    == adf
        \* Logic for CSV Upload
        fresh   == src = UPLOAD /\ file.present /\ last # file.name
        sniffed == fresh /\ file.readable
        called  == sniffed /\ key # ""
        m       == IF sniffed THEN ai_sniff_columns(file.table.cols, key, resp) ELSE NoMapping
        found   == /\ sniffed /\ ~m.exc
                   /\ InCols(m.y, file.table.cols) /\ InCols(m.d, file.table.cols)
        \* "none": no file to read; "skipped": the name is the last one loaded;
        \* "error": the try block raised; "rejected": a name is not a column
        load    == IF src # UPLOAD \/ ~file.present THEN "none"
                   ELSE IF ~fresh THEN "skipped"
                   ELSE IF ~file.readable \/ m.exc THEN "error"
                   ELSE IF found THEN "success" ELSE "rejected"
        adf2    == IF found THEN Df(BuildSeries(file.table, m.y, m.d)) ELSE adf1
        last2   == IF found THEN file.name ELSE last
        \* Fallback/Initialization for NASA
        adf3    == IF ~adf2.present /\ src = NASA THEN fetched ELSE adf2
        cache2  == IF src = NASA /\ ~adf2.present THEN fetched ELSE cache
        \* Assign data for the rest of the app, or st.stop()
        dash    == IF adf3.present THEN Dashboard(adf3, sl)
                   ELSE [view |-> "stopped", slider |-> NoSlider, count |-> 0,
                         trend |-> FALSE, facts |-> NoFacts]
    IN  [current_source |-> src, active_df |-> adf3, last_uploaded_file |-> last2,
         nasa_cache |-> cache2, slider |-> dash.slider,
         run |-> [load |-> load, sniffed |-> sniffed,
                  resp |-> IF called THEN resp ELSE Raised,
                  y_name |-> m.y, d_name |-> m.d,
                  view |-> dash.view, count |-> dash.count, trend |-> dash.trend,
                  facts |-> dash.facts]]

Script(cs, adf, last, cache, src, file, key, sl, resp, net) ==
    LET cs1     == IF cs = None THEN src ELSE cs
        changed == cs1 # src
        fetched == fetch_nasa_gistemp(cache, net)
        adf1    == IF changed THEN (IF src = NASA THEN fetched ELSE NoDf) ELSE adf
        \* Logic for CSV Upload
        fresh   == src = UPLOAD /\ file.present /\ last # file.name
        sniffed == fresh /\ file.readable
        called  == sniffed /\ key # ""
        m       == IF sniffed THEN ai_sniff_columns(file.table.cols, key, resp) ELSE NoMapping
        found   == /\ sniffed /\ ~m.exc
                   /\ InCols(m.y, file.table.cols) /\ InCols(m.d, file.table.cols)
        \* "none": no file to read; "skipped": the name is the last one loaded;
        \* "error": the try block raised; "rejected": a name is not a column
        load    == IF src # UPLOAD \/ ~file.present THEN "none"
                   ELSE IF ~fresh THEN "skipped"
                   ELSE IF ~file.readable \/ m.exc THEN "error"
                   ELSE IF found THEN "success" ELSE "rejected"
        adf2    == IF found THEN Df(BuildSeries(file.table, m.y, m.d)) ELSE adf1
        last2   == IF found THEN file.name ELSE last
        \* Fallback/Initialization for NASA
        adf3    == IF ~adf2.present /\ src = NASA THEN fetched ELSE adf2
        cache2  == IF src = NASA /\ (changed \/ ~adf2.present) THEN fetched ELSE cache
        \* Assign data for the rest of the app, or st.stop()
        dash    == IF adf3.present THEN Dashboard(adf3, sl)
                   ELSE [view |-> "stopped", slider |-> NoSlider, count |-> 0,
                         trend |-> FALSE, facts |-> NoFacts]
    IN  [current_source |-> src, active_df |-> adf3, last_uploaded_file |-> last2,
         nasa_cache |-> cache2, slider |-> dash.slider,
         run |-> [load |-> load, sniffed |-> sniffed,
                  resp |-> IF called THEN resp ELSE Raised,
                  y_name |-> m.y, d_name |-> m.d,
                  view |-> dash.view, count |-> dash.count, trend |-> dash.trend,
                  facts |-> dash.facts]]

(***************************************************************************)
(* What the user and the world can supply                                  *)
(***************************************************************************)
cYear    == <<"Y","e","a","r">>
cTemp    == <<"T","e","m","p">>
cDate    == <<"D","a","t","e">>
cAnomaly == <<"A","n","o","m","a","l","y">>
cSite    == <<"S","i","t","e">>
cYrVal   == <<"Y","r","V","a","l">>
cOther   == <<"Q">>                       \* a name no table of the model has

\* "Year: <y>\nData: <d>", the two-line answer the parser is written for
TwoLine(y, d) == YearMarker \o <<" ">> \o y \o Newline \o DataMarker \o <<" ">> \o d
\* "Year: <y>, Data: <d>", the one-line form the prompt asks for
OneLine(y, d) == YearMarker \o <<" ">> \o y \o <<",", " ">> \o DataMarker \o <<" ">> \o d
\* answers that lack a marker
NoYearText == DataMarker \o <<" ">> \o cTemp
NoDataText == YearMarker \o <<" ">> \o cYear
NoMarkerText == <<"?">>

\* every outcome of the service call over the names ns
Responses(ns) ==
    {Raised}
    \cup {Answer(TwoLine(y, d)) : y \in ns, d \in ns}
    \cup {Answer(OneLine(y, d)) : y \in ns, d \in ns}
    \cup {Answer(NoYearText), Answer(NoDataText), Answer(NoMarkerText)}

Keys == {"", "sk-ant"}

\* sequences over S of length 0..n
RECURSIVE SeqsUpTo(_, _)
SeqsUpTo(S, n) ==
    IF n = 0 THEN {<<>>}
    ELSE LET shorter == SeqsUpTo(S, n - 1)
         IN  shorter \cup {Append(h, c) : h \in shorter, c \in S}

\* df.columns after read_csv: 1..n labels over S, no label twice
Headers(S, n) ==
    {h \in SeqsUpTo(S, n) : h # <<>> /\ \A i, j \in 1..Len(h) : h[i] = h[j] => i = j}

\* every table with the header cols, at most n rows, cells from C
Tables(cols, n, C) ==
    {[cols |-> cols, rows |-> rows] : rows \in SeqsUpTo([1..Len(cols) -> C], n)}

(***************************************************************************)
(* The steps of a browser session.  Every interaction reruns the script.   *)
(* R is the set of outcomes the service call can have.                     *)
(***************************************************************************)
\* the service is asked only by a run that reads a new file with a key present;
\* the download happens only when fetch_nasa_gistemp runs with an empty cache
Asks(src, file, key) ==
    src = UPLOAD /\ file.present /\ file.readable /\ last_uploaded_file # file.name /\ key # ""
Outcomes(src, file, key, R) == IF Asks(src, file, key) THEN R ELSE {Raised}
Downloads(src) == IF src = NASA /\ ~nasa_cache.present THEN Net ELSE {"ok"}

\* the script runs with the widgets (src, file, key, sl), which become the widget state
Rerun(src, file, key, sl, R) ==
    \E resp \in Outcomes(src, file, key, R), net \in Downloads(src) :
      \E r \in {Script(current_source, active_df, last_uploaded_file, nasa_cache,
                        src, file, key, sl, resp, net)} :
            /\ side_src' = src
            /\ user_file' = file
            /\ api_key' = key
            /\ current_source' = r.current_source
            /\ active_df' = r.active_df
            /\ last_uploaded_file' = r.last_uploaded_file
            /\ nasa_cache' = r.nasa_cache
            /\ slider' = r.slider
            /\ run' = r.run

\* the radio: the uploader exists only in upload mode and starts empty
SelectSource(src, R) ==
    /\ src # side_src
    /\ Rerun(src, NoFile, api_key, slider, R)

\* the uploader receives a file
UploadFile(f, R) ==
    /\ side_src = UPLOAD
    /\ f # user_file
    /\ Rerun(side_src, f, api_key, slider, R)

\* the user removes the file from the uploader
RemoveFile(R) ==
    /\ side_src = UPLOAD
    /\ user_file.present
    /\ Rerun(side_src, NoFile, api_key, slider, R)

\* the API key field changes
EnterApiKey(k, R) ==
    /\ k # api_key
    /\ Rerun(side_src, user_file, k, slider, R)

\* the slider moves inside its bounds
MoveSlider(a, b, R) ==
    /\ slider.present
    /\ slider.lo <= a /\ a <= b /\ b <= slider.hi
    /\ <<a, b>> # <<slider.a, slider.b>>
    /\ Rerun(side_src, user_file, api_key, [slider EXCEPT !.a = a, !.b = b], R)

\* any other widget (location, demo toggle, the narrative button) reruns the script
OtherWidget(R) ==
    /\ Rerun(side_src, user_file, api_key, slider, R)

(***************************************************************************)
(* Spec: a whole session over a small catalog of files                     *)
(***************************************************************************)
MaxRows == 1
FileNames == {"a.csv", "b.csv"}
SessionCells == {NaN, Num(2)}

SessionTables == Tables(<<cYear, cTemp>>, MaxRows, SessionCells)

SessionFiles ==
    {File(n, t) : n \in FileNames, t \in SessionTables} \cup {BrokenFile(n) : n \in FileNames}

SessionResponses ==
    {Raised, Answer(TwoLine(cTemp, cYear)), Answer(TwoLine(cYear, cOther)),
     Answer(OneLine(cYear, cTemp)), Answer(NoMarkerText)}

\* The first run of a new session: NASA is the radio's default, no file, no key
Init ==
    \E net \in Net :
        LET r == Script(None, NoDf, None, NoDf, NASA, NoFile, "", NoSlider, Raised, net)
        IN  /\ side_src = NASA
            /\ user_file = NoFile
            /\ api_key = ""
            /\ current_source = r.current_source
            /\ active_df = r.active_df
            /\ last_uploaded_file = r.last_uploaded_file
            /\ nasa_cache = r.nasa_cache
            /\ slider = r.slider
            /\ run = r.run

Switch  == \E src \in {NASA, UPLOAD} : SelectSource(src, SessionResponses)
Upload  == \E f \in SessionFiles : UploadFile(f, SessionResponses)
Remove  == RemoveFile(SessionResponses)
TypeKey == \E k \in Keys : EnterApiKey(k, SessionResponses)
Slide   == \E a, b \in slider.lo..slider.hi : MoveSlider(a, b, SessionResponses)
Other   == OtherWidget(SessionResponses)

Next == Switch \/ Upload \/ Remove \/ TypeKey \/ Slide \/ Other

Spec == Init /\ [][Next]_vars

(***************************************************************************)
(* The state a session is in after the user chose "Upload My Own CSV" and  *)
(* typed the key k: nothing loaded yet, the script stopped at st.stop().   *)
(***************************************************************************)
Waiting(k) ==
    /\ side_src = UPLOAD
    /\ user_file = NoFile
    /\ api_key = k
    /\ current_source = UPLOAD
    /\ active_df = NoDf
    /\ last_uploaded_file = None
    /\ nasa_cache = Df(NasaFallback)
    /\ slider = NoSlider
    /\ run = IdleRun

\* the first upload of the session
FirstUpload(f, R) ==
    /\ ~user_file.present
    /\ last_uploaded_file = None
    /\ UploadFile(f, R)

(***************************************************************************)
(* SpecClassify: the first upload, over every header of up to MaxCols      *)
(* names and every outcome of the service call                             *)
(***************************************************************************)
MaxCols == 3
ClassifyNames == {cYear, cTemp, cDate, cAnomaly, cSite, cYrVal}

\* one row of numbers under the header h
OneRow(h) == [cols |-> h, rows |-> << [i \in 1..Len(h) |-> Num(Scale)] >>]

ClassifyFiles == {File("a.csv", OneRow(h)) : h \in Headers(ClassifyNames, MaxCols)}

ClassifyResponses == Responses({cYear, cTemp, cOther})

InitClassify == \E k \in Keys : Waiting(k)

UploadHeader == \E f \in ClassifyFiles : FirstUpload(f, ClassifyResponses)

NextClassify == UploadHeader

SpecClassify == InitClassify /\ [][NextClassify]_vars

(***************************************************************************)
(* SpecFacts: the first upload without a key, over every table of up to    *)
(* MaxFactRows rows, then the slider                                       *)
(***************************************************************************)
MaxFactRows == 2
MaxCell == 6
FactCells == {NaN, TextCell} \cup {Num(v) : v \in 1..MaxCell}

\* the files whose table has Year and Temp, in either order, and at most n rows
FactFiles(n) ==
    {File("a.csv", t) : t \in Tables(<<cYear, cTemp>>, n, FactCells)
                              \cup Tables(<<cTemp, cYear>>, n, FactCells)}

InitFacts == Waiting("")

UploadTable ==
    /\ ~user_file.present
    /\ \E f \in FactFiles(MaxFactRows) : FirstUpload(f, {Raised})

SlideFacts == \E a, b \in slider.lo..slider.hi : MoveSlider(a, b, {Raised})

NextFacts == UploadTable \/ SlideFacts

SpecFacts == InitFacts /\ [][NextFacts]_vars

(***************************************************************************)
(* Properties                                                              *)
(***************************************************************************)
\* the columns of the uploaded frame and the pair ai_sniff_columns returned for it
Cols   == user_file.table.cols
Sniff  == Returns(run.y_name, run.d_name)
NoKey  == run.sniffed /\ api_key = ""

\* the service answered with a text that has both markers
WellFormed(resp) ==
    ~resp.raised /\ Contains(resp.text, YearMarker) /\ Contains(resp.text, DataMarker)

\* the series a table yields under some pair of its columns
DerivedFrom(table) ==
    {BuildSeries(table, table.cols[i], table.cols[j]) :
        i \in 1..Len(table.cols), j \in 1..Len(table.cols)}

\* rows of the table whose cells under y and d are both numbers
ValidRows(table, y, d) ==
    {r \in 1..Len(table.rows) :
        /\ table.rows[r][ColIndex(table.cols, y)].kind = "num"
        /\ table.rows[r][ColIndex(table.cols, d)].kind = "num"}

\* the rows of the active series inside the slider's range
InRange == FilterRange(active_df.rows, slider.a, slider.b)

\* C1: without a key, for a table of at least two columns the classifier returns
\* two names that are columns of the table and differ from each other.
C1_DistinctColumns ==
    (NoKey /\ Len(Cols) >= 2) =>
        /\ InCols(run.y_name, Cols)
        /\ InCols(run.d_name, Cols)
        /\ run.y_name # run.d_name

\* C2: with a key, when the service's well-formed answer names something that is
\* not a column, the names are discarded: the file is loaded with the heuristic
\* mapping.
C2_BadNamesFallBack ==
    (/\ run.sniffed /\ api_key # "" /\ WellFormed(run.resp)
     /\ \/ ~InCols(ParseField(run.resp.text, YearMarker), Cols)
        \/ ~InCols(ParseField(run.resp.text, DataMarker), Cols))
    => /\ run.load = "success"
       /\ Sniff = Heuristic(Cols)
       /\ active_df = Df(BuildSeries(user_file.table, y_col(Cols), d_col(Cols, y_col(Cols))))

\* C3: when there is no key, or the service call raises, or its answer lacks the
\* "Year:" or the "Data:" marker, ai_sniff_columns raises nothing and returns
\* the heuristic's mapping for the table.
C3_FailureFallsBack ==
    (/\ run.sniffed
     /\ \/ api_key = ""
        \/ run.resp.raised
        \/ ~Contains(run.resp.text, YearMarker)
        \/ ~Contains(run.resp.text, DataMarker))
    => /\ run.load # "error"
       /\ Sniff = Heuristic(Cols)

\* a key is set, the answer has no "Data:" marker, and the file was loaded
C3_Witness ==
    /\ run.sniffed /\ api_key # ""
    /\ ~run.resp.raised
    /\ Contains(run.resp.text, YearMarker)
    /\ ~Contains(run.resp.text, DataMarker)
    /\ run.load = "success"
    /\ Len(Cols) = 3

\* C4: the cached series is never one of another source or file than the one
\* selected now: in NASA mode it is the fetched frame, in upload mode it is a
\* series of the file now in the uploader.
C4_CacheFollowsSelection ==
    active_df.present =>
        IF side_src = NASA THEN active_df = nasa_cache
        ELSE /\ user_file.present /\ user_file.readable
             /\ active_df.rows \in DerivedFrom(user_file.table)

\* C5: the fact pack's start value is the value of an in-range row with the
\* smallest year and its end value that of an in-range row with the largest year.
C5_StartEndByYear ==
    run.view = "rendered" =>
        /\ \E i \in 1..Len(InRange) :
              /\ InRange[i].year = SeqMin(Years(InRange))
              /\ InRange[i].anomaly = run.facts.val_start
        /\ \E i \in 1..Len(InRange) :
              /\ InRange[i].year = SeqMax(Years(InRange))
              /\ InRange[i].anomaly = run.facts.val_end

\* C6: when the rows in range have fewer than two distinct years, no trend is
\* produced or displayed.
C6_NoTrendWhenDegenerate ==
    (run.view = "rendered" /\ Cardinality({InRange[i].year : i \in 1..Len(InRange)}) < 2)
        => ~run.trend

\* C7: when no row of the series is inside the selected range, the run ends in
\* an error outcome: it neither renders nor silently shows nothing.
C7_EmptyRangeIsAnError ==
    (slider.present /\ InRange = <<>>) => run.view \notin {"blank", "rendered"}

\* C8: without a key, a table that has the columns "Year" and "Temp" is mapped
\* to time "Year" and value "Temp", whatever its other columns and their order.
C8_YearTempAlways ==
    (NoKey /\ InCols(cYear, Cols) /\ InCols(cTemp, Cols))
        => run.y_name = cYear /\ run.d_name = cTemp

\* C8 as amended: the same, for the tables in which no column other than
\* "Year" and "Temp" has a name containing a time keyword or a value keyword.
C8_YearTempWhenOnlyKeywords ==
    (/\ NoKey /\ InCols(cYear, Cols) /\ InCols(cTemp, Cols)
     /\ \A i \in 1..Len(Cols) :
            Cols[i] \notin {cYear, cTemp} =>
                ~AnyKeyword(Cols[i], y_keywords) /\ ~AnyKeyword(Cols[i], d_keywords))
    => run.y_name = cYear /\ run.d_name = cTemp

\* "Year" and "Temp" behind a column without keywords, value column first
C8_Witness ==
    /\ NoKey
    /\ Cols = <<cSite, cTemp, cYear>>
    /\ run.y_name = cYear /\ run.d_name = cTemp

\* C9: with the slider at its full default range, the number of rows in range
\* is the number of rows of the uploaded table whose time and value cells are
\* both numbers.
C9_FullRangeCountsValidRows ==
    (/\ user_file.present /\ slider.present
     /\ slider.a = slider.lo /\ slider.b = slider.hi)
    => run.count = Cardinality(ValidRows(user_file.table, y_col(Cols), d_col(Cols, y_col(Cols))))

\* C10: in upload mode, a run with a file present whose classified columns exist
\* ends with active_df set to a series of that file.
C10_PresentFileIsLoaded ==
    (/\ side_src = UPLOAD /\ user_file.present /\ user_file.readable
     /\ run.load \in {"success", "skipped"})
        => /\ active_df.present
           /\ active_df.rows \in DerivedFrom(user_file.table)

\* C11: in every run with the NASA source selected, whatever came before, the
\* series the dashboard works on is the frame fetch_nasa_gistemp returns (one
\* of its two results, kept in its cache), never a series left by an upload,
\* and the run reaches the dashboard with it instead of stopping.
C11_NasaShowsFetched ==
    side_src = NASA =>
        /\ active_df.present
        /\ active_df = nasa_cache
        /\ active_df.rows \in {NasaDownload, NasaFallback}
        /\ run.view # "stopped"
        /\ run.load = "none"

\* back on NASA after a file was loaded in upload mode
C11_Witness ==
    /\ side_src = NASA
    /\ last_uploaded_file # None
    /\ active_df = nasa_cache
    /\ run.view = "rendered"

=============================================================================
